---- MODULE Spec2Model ----
(***************************************************************************)
(* The real-time messaging core of lazybook: the bearer-token gate of the  *)
(* streaming handshake (backend/app/auth.py), the ConnectionManager        *)
(* registry and the per-connection chat handler (backend/app/main.py).     *)
(*                                                                         *)
(* One asyncio task runs chat() per WebSocket.  Tasks interleave only at   *)
(* an await, so every action below is the code that runs between two       *)
(* awaits of one task: it starts when the awaited call returns (or raises) *)
(* and ends at the next await.                                             *)
(***************************************************************************)
EXTENDS Integers, Sequences, FiniteSets, TLC

\* ---------------------------------------------------------------- bounds
\* Inbound frames the clients send, over all connections.
MaxFrames == 1

\* Inbound frames in the runs of two connections (PairSpec).
MaxPairFrames == 2

\* HTTP requests that pass through the request-scoped gate.
MaxRequests == 2

\* The WebSocket objects (one chat() task each), named in the order the
\* clients open them.
Sockets == <<"w1", "w2", "w3">>
Handles == {Sockets[i] : i \in 1..Len(Sockets)}

\* Rows of the users table, and the ids a client may name.
Users == {1, 2}
UserIds == {1, 2, 3}

\* Instants of time.time() the clock passes through (seconds).
Times == {0, 900}

\* Message texts.
Contents == {"hi"}

\* ------------------------------------------------------ configuration
FRONTEND_ORIGIN == "https://app"
Origins == {FRONTEND_ORIGIN, "https://evil"}

JWT_SECRET == "secret"
Keys == {JWT_SECRET, "foreign"}

\* exp - iat of an access token: 15 * 60 seconds.
ACCESS_TTL == 900

WS_1008_POLICY_VIOLATION == 1008

HTTP_401_UNAUTHORIZED == 401

NoUser == 0
NoFrame == [recipient_id |-> 0, contents |-> ""]
NoMessage == 0

VARIABLES
    now,                 \* time.time()
    pc,                  \* where each chat() task is suspended
    alive,               \* whether the client end of each socket is still there
    origin,              \* the Origin header of each handshake
    token,               \* the token query parameter of each handshake
    user_id,             \* int(data.get("sub")) of the decoded token
    me,                  \* the User get_current_user_ws returned (its id)
    active_connections,  \* ConnectionManager.active_connections, a dict in
                         \* insertion order: a sequence of [user_id, connections]
    data,                \* the payload receive_json() returned
    incoming,            \* the MessageIn of the frame being processed
    message,             \* the Message row of the frame being processed (its id)
    frame_no,            \* the number of the frame being processed
    targets,             \* list(targets), the handles of the pass
    todo,                \* the handles of list(targets) not yet sent to
    stale,               \* the handles whose send raised in this pass
    errcode,             \* the code of the error frame being sent
    messages,            \* the messages table
    wire,                \* per socket, the send_json calls made on it, in order
    nframes,             \* inbound frames received so far
    hs_trace,            \* per handshake, the checks it ran, in order
    close_code,          \* the close code a refused handshake was given
    exit_by,             \* how each chat() task ended
    responses            \* what get_current_user_dep gave the HTTP requests

vars == <<now, pc, alive, origin, token, user_id, me, active_connections, data,
          incoming, message, frame_no, targets, todo, stale, errcode, messages, wire, nframes, hs_trace,
          close_code, exit_by, responses>>

\* ------------------------------------------------------------- helpers
Range(s) == {s[i] : i \in 1..Len(s)}

\* The decimal text of a user id, and int() of a decimal text.
Str(n) == CASE n = 1 -> "1" [] n = 2 -> "2" [] n = 3 -> "3" [] OTHER -> "0"

IsDecimal(t) == t \in {"0", "1", "2", "3"}

ParseInt(t) == CASE t = "1" -> 1 [] t = "2" -> 2 [] t = "3" -> 3 [] OTHER -> 0

\* ------------------------------------------------------- Token Service
Username(uid) == CASE uid = 1 -> "ann" [] uid = 2 -> "bob" [] OTHER -> "cat"

\* The payload generate_access_token builds at time t.
generate_access_token(uid, username, t) ==
    [sub |-> Str(uid), name |-> username, iat |-> t,
     exp |-> t + ACCESS_TTL, typ |-> "access"]

\* jwt.encode(payload, key, "HS256"): the payload and the key that signed it.
jwt_encode(payload, key) == [payload |-> payload, key |-> key]

InvalidTokenError == "InvalidTokenError"

\* What a call gives: the value it returns, or the exception it raises.
Returns(value) == [raised |-> "", value |-> value]
Raises(exc, nothing) == [raised |-> exc, value |-> nothing]

\* A decode that still takes a token at the instant of its exp.
jwt_decode_at_expiry(tok, key, t) ==
    IF tok.key # key THEN Raises(InvalidTokenError, tok.payload)
    ELSE IF tok.payload.exp < t THEN Raises(InvalidTokenError, tok.payload)
    ELSE Returns(tok.payload)

\* A decode with verify_signature off: any key passes.
jwt_decode_unverified(tok, key, t) ==
    IF tok.payload.exp <= t THEN Raises(InvalidTokenError, tok.payload)
    ELSE Returns(tok.payload)

\* jwt.decode(token, key, ["HS256"]) at time t: the payload, or InvalidTokenError
\* for a signature of another key and for an exp that has passed.
jwt_decode(tok, key, t) ==
    IF tok.key # key THEN Raises(InvalidTokenError, tok.payload)
    ELSE IF tok.payload.exp <= t THEN Raises(InvalidTokenError, tok.payload)
    ELSE Returns(tok.payload)

\* The tokens a client can present at time t: one that login issued at an
\* earlier instant (its user may have been deleted since), or a forged one.
ClientTokens(t) ==
    {jwt_encode(generate_access_token(u, Username(u), t0), k) :
        u \in UserIds, t0 \in {x \in Times : x <= t}, k \in Keys}

NoTokenValue == jwt_encode(generate_access_token(0, "", 0), "")

\* ------------------------------------------------- ConnectionManager
\* A dict is a sequence of entries in insertion order.
HasKey(d, uid) == \E i \in 1..Len(d) : d[i].user_id = uid

\* dict.get(uid): the set, or {} for None (both are falsy to `if targets`).
Get(d, uid) ==
    IF HasKey(d, uid)
    THEN d[CHOOSE i \in 1..Len(d) : d[i].user_id = uid].connections
    ELSE {}

RemoveAt(d, i) == SubSeq(d, 1, i - 1) \o SubSeq(d, i + 1, Len(d))

\* A connect() that also puts the socket into the set of the first entry.
connect_first_entry(d, uid, websocket) ==
    LET d1 == IF HasKey(d, uid) THEN d
              ELSE Append(d, [user_id |-> uid, connections |-> {}])
        i == CHOOSE j \in 1..Len(d1) : d1[j].user_id = uid
    IN [[d1 EXCEPT ![i].connections = @ \cup {websocket}]
            EXCEPT ![1].connections = @ \cup {websocket}]

\* The registry part of connect(): the lines after `await websocket.accept()`.
connect(d, uid, websocket) ==
    LET d1 == IF HasKey(d, uid) THEN d
              ELSE Append(d, [user_id |-> uid, connections |-> {}])
        i == CHOOSE j \in 1..Len(d1) : d1[j].user_id = uid
    IN [d1 EXCEPT ![i].connections = @ \cup {websocket}]

\* A disconnect() that pops the entry it finds the socket in.
disconnect_pops_entry(d, websocket) ==
    LET hits == {i \in 1..Len(d) : websocket \in d[i].connections}
    IN IF hits = {} THEN d
       ELSE RemoveAt(d, CHOOSE j \in hits : \A k \in hits : j <= k)

\* A disconnect() without the `if not connections` branch: the emptied entry
\* stays in the dict.
disconnect_keeps_entry(d, websocket) ==
    LET hits == {i \in 1..Len(d) : websocket \in d[i].connections}
    IN IF hits = {} THEN d
       ELSE LET i == CHOOSE j \in hits : \A k \in hits : j <= k
            IN [d EXCEPT ![i].connections = @ \ {websocket}]

\* disconnect(): the scan stops at the first entry that holds the socket.
disconnect(d, websocket) ==
    LET hits == {i \in 1..Len(d) : websocket \in d[i].connections}
    IN IF hits = {} THEN d
       ELSE LET i == CHOOSE j \in hits : \A k \in hits : j <= k
                connections == d[i].connections \ {websocket}
            IN IF connections = {} THEN RemoveAt(d, i)
               ELSE [d EXCEPT ![i].connections = connections]

\* for ws in stale: connection_manager.disconnect(ws)
RECURSIVE prune(_, _)
prune(d, stale_list) ==
    IF stale_list = <<>> THEN d
    ELSE prune(disconnect(d, Head(stale_list)), Tail(stale_list))

Registered(websocket) ==
    \E i \in 1..Len(active_connections) :
        websocket \in active_connections[i].connections

\* ------------------------------------------------------ inbound frames
\* A JSON value as the client wrote it: its JSON type and its text.
Json(type, text) == [type |-> type, text |-> text]

Missing == Json("missing", "")

\* What receive_json() hands over: the parsed payload, or BadJson when the
\* text does not parse.  A payload that is no object has both fields missing.
BadJson == [recipient_id |-> Json("unparsable", ""), contents |-> Json("unparsable", "")]

NoData == [recipient_id |-> Json("none", ""), contents |-> Json("none", "")]

RecipientValues ==
    {Json("number", Str(u)) : u \in UserIds}
        \cup {Json("string", "2"), Json("string", "x"), Missing}

ContentsValues ==
    {Json("string", c) : c \in Contents} \cup {Json("number", "2")}

Payloads == [recipient_id : RecipientValues, contents : ContentsValues]

ValidationError == "ValidationError"

\* pydantic's int field (lax mode, the default of MessageIn): a JSON integer,
\* or a string whose text is a decimal integer, which it converts.
int_field(v) ==
    IF v.type \in {"number", "string"} /\ IsDecimal(v.text)
    THEN Returns(ParseInt(v.text)) ELSE Raises(ValidationError, 0)

\* pydantic's str field: a JSON string and nothing else.
str_field(v) ==
    IF v.type = "string" THEN Returns(v.text) ELSE Raises(ValidationError, "")

\* MessageIn.model_validate(data)
model_validate(obj) ==
    IF int_field(obj.recipient_id).raised # ""
        \/ str_field(obj.contents).raised # ""
    THEN Raises(ValidationError, NoFrame)
    ELSE Returns([recipient_id |-> int_field(obj.recipient_id).value,
                  contents |-> str_field(obj.contents).value])

\* ------------------------------------------------------ outbound frames
\* datetime.isoformat(): a string made from the timestamp.
isoformat(t) == <<"iso8601", t>>

\* {"type": "error", "code": code}
ErrorFrame(code) ==
    [type |-> "error", code |-> code, sender_id |-> NoUser, contents |-> "",
     created_at |-> isoformat(0)]

\* outgoing = {"sender_id", "contents", "created_at"}
Outgoing(sender_id, row) ==
    [type |-> "", code |-> "", sender_id |-> sender_id, contents |-> row.contents,
     created_at |-> isoformat(row.created_at)]

\* One send_json call on a socket: the frame, whether the call returned (ok)
\* or raised, and the Message row the frame was built from (0 for an error
\* frame).
Sent(frame, ok, msg) == [frame |-> frame, ok |-> ok, msg |-> msg]

\* A Message whose sender_id is read from the inbound frame.
Row_sender_from_frame(sender_id, msg_in, t, n, ws) ==
    [id |-> Len(messages) + 1, sender_id |-> msg_in.recipient_id,
     recipient_id |-> msg_in.recipient_id, contents |-> msg_in.contents,
     created_at |-> t, frame |-> n, conn |-> ws]

\* The Message(sender_id, recipient_id, contents) the commit inserts: the
\* store assigns the id and created_at.  `frame` is the number of the inbound
\* frame the row was built from and `conn` the socket the frame came in on.
Row(sender_id, msg_in, t, n, ws) ==
    [id |-> Len(messages) + 1, sender_id |-> sender_id,
     recipient_id |-> msg_in.recipient_id, contents |-> msg_in.contents,
     created_at |-> t, frame |-> n, conn |-> ws]

\* db.add(message); db.commit()
insert(table, row) == Append(table, row)

\* ----------------------------------------------------------------- Init
Init ==
    /\ now = 0
    /\ pc = [h \in Handles |-> "new"]
    /\ alive = [h \in Handles |-> TRUE]
    /\ origin = [h \in Handles |-> ""]
    /\ token = [h \in Handles |-> NoTokenValue]
    /\ user_id = [h \in Handles |-> NoUser]
    /\ me = [h \in Handles |-> NoUser]
    /\ active_connections = <<>>
    /\ data = [h \in Handles |-> NoData]
    /\ incoming = [h \in Handles |-> NoFrame]
    /\ message = [h \in Handles |-> NoMessage]
    /\ frame_no = [h \in Handles |-> 0]
    /\ targets = [h \in Handles |-> {}]
    /\ todo = [h \in Handles |-> {}]
    /\ stale = [h \in Handles |-> <<>>]
    /\ errcode = [h \in Handles |-> ""]
    /\ messages = <<>>
    /\ wire = [h \in Handles |-> <<>>]
    /\ nframes = 0
    /\ hs_trace = [h \in Handles |-> <<>>]
    /\ close_code = [h \in Handles |-> 0]
    /\ exit_by = [h \in Handles |-> ""]
    /\ responses = {}

\* ------------------------------------------------------------ handshake
hsvars == <<origin, token, user_id, me, hs_trace, close_code>>

\* The locals of the receive loop.
locals == <<data, incoming, message, frame_no, targets, todo, stale, errcode>>

\* The two checks in the other order: the token is decoded first.
handshake_checks_token_first(o, tok, t) ==
    IF jwt_decode(tok, JWT_SECRET, t).raised = InvalidTokenError
    THEN [trace |-> <<"jwt_decode">>, ok |-> FALSE, user_id |-> NoUser]
    ELSE IF o # FRONTEND_ORIGIN
    THEN [trace |-> <<"jwt_decode", "origin">>, ok |-> FALSE, user_id |-> NoUser]
    ELSE [trace |-> <<"jwt_decode", "origin">>, ok |-> TRUE,
          user_id |-> ParseInt(jwt_decode(tok, JWT_SECRET, t).value.sub)]

\* chat(), lines 118-122 up to the await of db.get: the checks run, in order,
\* and whether the handshake passed them.
handshake_checks(o, tok, t) ==
    IF o # FRONTEND_ORIGIN
    THEN [trace |-> <<"origin">>, ok |-> FALSE, user_id |-> NoUser]
    ELSE IF jwt_decode(tok, JWT_SECRET, t).raised = InvalidTokenError
    THEN [trace |-> <<"origin", "jwt_decode">>, ok |-> FALSE, user_id |-> NoUser]
    ELSE [trace |-> <<"origin", "jwt_decode">>, ok |-> TRUE,
          user_id |-> ParseInt(jwt_decode(tok, JWT_SECRET, t).value.sub)]

\* What an operation on a socket finds: the client still there (TRUE), or
\* gone (FALSE: a close frame or a broken transport).  A client that has gone
\* stays gone.
Outcomes(ws) == IF alive[ws] THEN {TRUE, FALSE} ELSE {FALSE}

\* chat() ends: the server closes the transport of the socket.
Exit(h, how) ==
    /\ pc' = [pc EXCEPT ![h] = "closed"]
    /\ exit_by' = [exit_by EXCEPT ![h] = how]
    /\ alive' = [alive EXCEPT ![h] = FALSE]

\* raise WebSocketException(code=1008) before accept: the handshake is refused.
Refuse(h) ==
    /\ Exit(h, "refused")
    /\ close_code' = [close_code EXCEPT ![h] = WS_1008_POLICY_VIOLATION]

\* An exception other than WebSocketDisconnect leaves the receive loop: line
\* 188 does not catch it and disconnect() is not called.
Crash(h) == Exit(h, "error")

\* An exception other than WebSocketException leaves chat() before the loop.
HandshakeCrash(h) == Exit(h, "handshake_error")

\* A client opens a socket: the Origin check and jwt.decode.
Handshake(h, o, tok) ==
    /\ pc[h] = "new"
    /\ \A i, j \in 1..Len(Sockets) : (i < j /\ Sockets[j] = h) => pc[Sockets[i]] # "new"
    /\ origin' = [origin EXCEPT ![h] = o]
    /\ LET r == handshake_checks(o, tok, now) IN
        /\ hs_trace' = [hs_trace EXCEPT ![h] = r.trace]
        /\ user_id' = [user_id EXCEPT ![h] = r.user_id]
        /\ token' = [token EXCEPT ![h] = tok]
        /\ IF r.ok
           THEN /\ pc' = [pc EXCEPT ![h] = "auth"]
                /\ UNCHANGED <<alive, close_code, exit_by>>
           ELSE Refuse(h)
    /\ UNCHANGED <<responses, now, me, active_connections, data, incoming, message, frame_no,
                   targets,                    todo, stale, errcode, messages, wire, nframes>>

\* get_current_user_ws, lines 70-74: db.get(User, user_id) returns.
ResolveUser(h) ==
    /\ pc[h] = "auth"
    /\ hs_trace' = [hs_trace EXCEPT ![h] = Append(@, "db_get")]
    /\ user_id' = [user_id EXCEPT ![h] = NoUser]
    /\ IF user_id[h] \in Users
       THEN /\ me' = [me EXCEPT ![h] = user_id[h]]
            /\ pc' = [pc EXCEPT ![h] = "accepting"]
            /\ UNCHANGED <<alive, close_code, exit_by>>
       ELSE /\ Refuse(h)
            /\ UNCHANGED me
    /\ UNCHANGED <<responses, now, origin, token, active_connections, data, incoming, message, frame_no,
                   targets,                    todo, stale, errcode, messages, wire, nframes>>

\* The store fails while db.get runs: the exception leaves chat() before accept.
ResolveUserRaises(h) ==
    /\ pc[h] = "auth"
    /\ hs_trace' = [hs_trace EXCEPT ![h] = Append(@, "db_get")]
    /\ user_id' = [user_id EXCEPT ![h] = NoUser]
    /\ HandshakeCrash(h)
    /\ UNCHANGED <<responses, now, origin, token, me, active_connections, data, incoming, message, frame_no,
                   targets,                    todo, stale, errcode, messages, wire, nframes, close_code>>

\* connection_manager.connect(me.id, websocket): accept() returns and the
\* socket is registered; on a socket the client has left, accept() raises.
Accept(h) ==
    /\ pc[h] = "accepting"
    /\ \E ok \in Outcomes(h) :
        IF ok
        THEN /\ hs_trace' = [hs_trace EXCEPT ![h] = Append(@, "accept")]
             /\ active_connections' = connect(active_connections, me[h], h)
             /\ pc' = [pc EXCEPT ![h] = "receive"]
             /\ UNCHANGED <<alive, exit_by>>
        ELSE /\ HandshakeCrash(h)
             /\ UNCHANGED <<hs_trace, active_connections>>
    /\ UNCHANGED <<responses, now, origin, token, user_id, me, data, incoming, message, frame_no,
                   targets,                    todo, stale, errcode, messages, wire, nframes, close_code>>

\* ---------------------------------------------------------- environment
\* Time passes to the next instant.
Tick ==
    /\ \E t \in Times : t > now
    /\ now' = CHOOSE t \in Times : t > now /\ \A x \in Times : x > now => t <= x
    /\ UNCHANGED <<pc, alive, active_connections, data, incoming, message, frame_no,
                   targets, todo, stale, errcode, messages, wire, nframes, exit_by,
                   responses>>
    /\ UNCHANGED hsvars

\* ------------------------------------------------- request-scoped gate
\* HTTPAuthorizationCredentials, or NoCreds for None (no Authorization header).
NoCreds == [scheme |-> "", credentials |-> NoTokenValue]

Schemes == {"Bearer", "Basic"}

\* str.lower() on the scheme names.
lower(s) == IF s = "Bearer" THEN "bearer" ELSE IF s = "Basic" THEN "basic" ELSE s

\* The credentials a client can present at time t.
Credentials(t) ==
    {NoCreds} \cup [scheme : Schemes, credentials : ClientTokens(t)]

\* raise HTTPException(status_code, detail): the response carries both.
HTTPException(status_code, detail) ==
    [status_code |-> status_code, detail |-> detail, user |-> NoUser]

\* get_current_user_dep(creds, db) at time t, with `users` the stored ids:
\* the User it returns (status_code 0: the route goes on), or the exception.
get_current_user_dep(creds, t, users) ==
    IF creds = NoCreds \/ lower(creds.scheme) # "bearer"
    THEN HTTPException(HTTP_401_UNAUTHORIZED, "missing bearer token")
    ELSE IF jwt_decode(creds.credentials, JWT_SECRET, t).raised = InvalidTokenError
    THEN HTTPException(HTTP_401_UNAUTHORIZED, "invalid credentials")
    ELSE IF ParseInt(jwt_decode(creds.credentials, JWT_SECRET, t).value.sub) \notin users
    THEN HTTPException(HTTP_401_UNAUTHORIZED, "user not found")
    ELSE [status_code |-> 0, detail |-> "",
          user |-> ParseInt(jwt_decode(creds.credentials, JWT_SECRET, t).value.sub)]

\* An HTTP request on a route that depends on get_current_user_dep.
Request(creds) ==
    /\ Cardinality(responses) < MaxRequests
    /\ responses' = responses \cup
            {[creds |-> creds, at |-> now,
              outcome |-> get_current_user_dep(creds, now, Users)]}
    /\ UNCHANGED <<now, pc, alive, active_connections, data, incoming, message,
                   frame_no, targets, todo, stale, errcode, messages, wire,
                   nframes, exit_by>>
    /\ UNCHANGED hsvars

\* --------------------------------------------------------- receive loop
\* Where the loop goes after an error frame was sent: `continue`.
after_error == "receive"

\* `await websocket.send_json(frame)` on the task's own socket returns, or
\* raises on a socket the client has left: WebSocketDisconnect, which line 188
\* catches, or another exception (a RuntimeError of the server for a send
\* after the close), which it does not.
SendOwn(h, frame, next) ==
    \E ok \in Outcomes(h) :
        IF ok
        THEN /\ wire' = [wire EXCEPT ![h] = Append(@, Sent(frame, TRUE, NoMessage))]
             /\ pc' = [pc EXCEPT ![h] = next]
             /\ UNCHANGED <<alive, active_connections, exit_by>>
        ELSE /\ UNCHANGED wire
             /\ \E exc \in {"WebSocketDisconnect", "RuntimeError"} :
                    IF exc = "WebSocketDisconnect"
                    THEN /\ active_connections' = disconnect(active_connections, h)
                         /\ Exit(h, "disconnect")
                    ELSE /\ Crash(h)
                         /\ UNCHANGED active_connections

\* A new turn of the loop: the message, targets and stale of the turn before
\* are read no more.
Forget(h) ==
    /\ message' = [message EXCEPT ![h] = NoMessage]
    /\ targets' = [targets EXCEPT ![h] = {}]
    /\ todo' = [todo EXCEPT ![h] = {}]
    /\ stale' = [stale EXCEPT ![h] = <<>>]

\* The payload receive_json() returned goes through model_validate() (lines
\* 130-140): the error frame to send, or the MessageIn to process.
Take(h, payload) ==
    /\ nframes' = nframes + 1
    /\ frame_no' = [frame_no EXCEPT ![h] = nframes + 1]
    /\ data' = [data EXCEPT ![h] = payload]
    /\ IF payload = BadJson
       THEN /\ errcode' = [errcode EXCEPT ![h] = "bad_json"]
            /\ pc' = [pc EXCEPT ![h] = "err"]
            /\ incoming' = [incoming EXCEPT ![h] = NoFrame]
       ELSE IF model_validate(payload).raised = ValidationError
       THEN /\ errcode' = [errcode EXCEPT ![h] = "validation_error"]
            /\ pc' = [pc EXCEPT ![h] = "err"]
            /\ incoming' = [incoming EXCEPT ![h] = NoFrame]
       ELSE /\ incoming' = [incoming EXCEPT ![h] = model_validate(payload).value]
            /\ pc' = [pc EXCEPT ![h] = "resolve"]
            /\ errcode' = [errcode EXCEPT ![h] = ""]
    /\ Forget(h)
    /\ UNCHANGED <<responses, now, alive, active_connections, messages, wire, exit_by>>
    /\ UNCHANGED hsvars

\* A loop that decodes the token again before it reads a frame, and ends the
\* session when the token no longer verifies.
Receive_revalidates(h, payload) ==
    /\ pc[h] = "receive"
    /\ alive[h]
    /\ IF jwt_decode(token[h], JWT_SECRET, now).raised = InvalidTokenError
       THEN /\ active_connections' = disconnect(active_connections, h)
            /\ Exit(h, "disconnect")
            /\ hs_trace' = [hs_trace EXCEPT ![h] = Append(@, "jwt_decode")]
            /\ UNCHANGED <<responses, now, origin, token, user_id, me, close_code,
                           messages, wire, nframes>>
            /\ UNCHANGED locals
       ELSE Take(h, payload)

\* A second consumer: a frame is read while the pass of the frame before is
\* still sending.
Receive_early(h, payload) ==
    /\ pc[h] \in {"receive", "fanout"}
    /\ alive[h]
    /\ Take(h, payload)

\* receive_json() returns a payload, or raises on text that is no JSON;
\* model_validate() runs on the payload (lines 129-140).
Receive(h, payload) ==
    /\ pc[h] = "receive"
    /\ alive[h]
    /\ Take(h, payload)

\* receive_json() raises on a socket the client has left (WebSocketDisconnect,
\* or RuntimeError once the disconnect was seen): `except Exception` at line
\* 131 takes it for bad JSON.
ReceiveRaises(h) ==
    /\ pc[h] = "receive"
    /\ alive' = [alive EXCEPT ![h] = FALSE]
    /\ errcode' = [errcode EXCEPT ![h] = "bad_json"]
    /\ pc' = [pc EXCEPT ![h] = "err"]
    /\ data' = [data EXCEPT ![h] = NoData]
    /\ incoming' = [incoming EXCEPT ![h] = NoFrame]
    /\ frame_no' = [frame_no EXCEPT ![h] = 0]
    /\ Forget(h)
    /\ UNCHANGED <<responses, now, active_connections, messages, wire, nframes, exit_by>>
    /\ UNCHANGED hsvars

\* The send of an error frame completes (lines 132, 139, 146, 160).
SendError(h) ==
    /\ pc[h] = "err"
    /\ SendOwn(h, ErrorFrame(errcode[h]), after_error)
    /\ errcode' = [errcode EXCEPT ![h] = ""]
    /\ data' = [data EXCEPT ![h] = NoData]
    /\ incoming' = [incoming EXCEPT ![h] = NoFrame]
    /\ frame_no' = [frame_no EXCEPT ![h] = 0]
    /\ UNCHANGED <<responses, now, message, targets, todo, stale, messages, nframes>>
    /\ UNCHANGED hsvars

\* A handler without the `if not recipient` branch.
ResolveRecipient_any(h) ==
    /\ pc[h] = "resolve"
    /\ pc' = [pc EXCEPT ![h] = "commit"]
    /\ UNCHANGED <<responses, now, alive, active_connections, messages, wire,
                   nframes, exit_by>>
    /\ UNCHANGED locals
    /\ UNCHANGED hsvars

\* db.get(User, incoming.recipient_id) returns (lines 144-154).
ResolveRecipient(h) ==
    /\ pc[h] = "resolve"
    /\ IF incoming[h].recipient_id \in Users
       THEN /\ pc' = [pc EXCEPT ![h] = "commit"]
            /\ UNCHANGED errcode
       ELSE /\ pc' = [pc EXCEPT ![h] = "err"]
            /\ errcode' = [errcode EXCEPT ![h] = "recipient_not_found"]
    /\ UNCHANGED <<responses, now, alive, active_connections, data, incoming, message,
                   frame_no,
                   targets, todo, stale, messages, wire, nframes, exit_by>>
    /\ UNCHANGED hsvars

\* db.commit() returns: the row is in the table (lines 149-157).
Commit(h) ==
    /\ pc[h] = "commit"
    /\ messages' = insert(messages, Row(me[h], incoming[h], now, frame_no[h], h))
    /\ message' = [message EXCEPT ![h] = Len(messages) + 1]
    /\ pc' = [pc EXCEPT ![h] = "refresh"]
    /\ UNCHANGED <<responses, now, alive, active_connections, data, incoming, frame_no,
                   targets,
                   todo, stale, errcode, wire, nframes, exit_by>>
    /\ UNCHANGED hsvars

\* A commit that raises after the row was written, and no rollback.
CommitRaises_keeps_row(h) ==
    /\ pc[h] = "commit"
    /\ messages' = insert(messages, Row(me[h], incoming[h], now, frame_no[h], h))
    /\ errcode' = [errcode EXCEPT ![h] = "db_error"]
    /\ pc' = [pc EXCEPT ![h] = "err"]
    /\ UNCHANGED <<responses, now, alive, active_connections, data, incoming, message,
                   frame_no, targets, todo, stale, wire, nframes, exit_by>>
    /\ UNCHANGED hsvars

\* db.commit() raises: rollback, then the db_error frame (lines 158-161).
CommitRaises(h) ==
    /\ pc[h] = "commit"
    /\ errcode' = [errcode EXCEPT ![h] = "db_error"]
    /\ pc' = [pc EXCEPT ![h] = "err"]
    /\ UNCHANGED <<responses, now, alive, active_connections, data, incoming, message,
                   frame_no,
                   targets, todo, stale, messages, wire, nframes, exit_by>>
    /\ UNCHANGED hsvars

\* The store fails in db.get (line 144) or db.refresh (line 163): neither is
\* inside a try, so the exception leaves chat().
StoreRaises(h) ==
    /\ pc[h] \in {"resolve", "refresh"}
    /\ Crash(h)
    /\ data' = [data EXCEPT ![h] = NoData]
    /\ incoming' = [incoming EXCEPT ![h] = NoFrame]
    /\ frame_no' = [frame_no EXCEPT ![h] = 0]
    /\ message' = [message EXCEPT ![h] = NoMessage]
    /\ UNCHANGED <<responses, now, active_connections, targets, todo, stale, errcode,
                   messages, wire, nframes>>
    /\ UNCHANGED hsvars

\* A lookup that takes the first entry of the dict, whoever it belongs to.
lookup_first(d, recipient_id) == IF d = <<>> THEN {} ELSE d[1].connections

\* A lookup that takes the sockets of every entry.
lookup_all(d, recipient_id) == UNION {d[i].connections : i \in 1..Len(d)}

\* targets = active_connections.get(recipient_id); list(targets)
lookup(d, recipient_id) == Get(d, recipient_id)

\* db.refresh(message) returns; the fan-out pass starts (lines 163-182).
Refresh(h) ==
    /\ pc[h] = "refresh"
    /\ LET found == lookup(active_connections, incoming[h].recipient_id) IN
        /\ targets' = [targets EXCEPT ![h] = found]
        /\ todo' = [todo EXCEPT ![h] = found]
        /\ IF found # {}
           THEN /\ stale' = [stale EXCEPT ![h] = <<>>]
                /\ pc' = [pc EXCEPT ![h] = "fanout"]
           ELSE /\ pc' = [pc EXCEPT ![h] = "receive"]
                /\ UNCHANGED stale
    /\ UNCHANGED <<responses, now, alive, active_connections, data, incoming, message,
                   frame_no,
                   errcode, messages, wire, nframes, exit_by>>
    /\ UNCHANGED hsvars

\* except Exception: pass
on_send_error_pass(stale_list, ws) == stale_list

\* except Exception: stale.append(ws)
on_send_error(stale_list, ws) == Append(stale_list, ws)

\* A pass over the live set: a handle that has left the registry is skipped.
rest_of_pass_live(remaining, ws, ok) ==
    {w \in remaining \ {ws} : Registered(w)}

\* A pass without the try around send_json: a failed send ends it.
rest_of_pass_break(remaining, ws, ok) == IF ok THEN remaining \ {ws} ELSE {}

\* The handles the pass still sends to after the send to ws returned or raised.
rest_of_pass(remaining, ws, ok) == remaining \ {ws}

\* `await ws.send_json(outgoing)` on a recipient socket returns or raises
\* (lines 180-184); after the last one the stale sockets are pruned (185-186).
FanoutSend(h, ws) ==
    /\ pc[h] = "fanout"
    /\ ws \in todo[h]
    /\ \E ok \in Outcomes(ws) :
       LET outgoing == Outgoing(me[h], messages[message[h]])
           stale1 == IF ok THEN stale[h] ELSE on_send_error(stale[h], ws)
           todo1 == rest_of_pass(todo[h], ws, ok)
       IN /\ wire' = [wire EXCEPT ![ws] = Append(@, Sent(outgoing, ok, message[h]))]
          /\ alive' = [alive EXCEPT ![ws] = ok]
          /\ todo' = [todo EXCEPT ![h] = todo1]
          /\ stale' = [stale EXCEPT ![h] = stale1]
          /\ IF todo1 # {}
             THEN UNCHANGED <<pc, active_connections>>
             ELSE /\ active_connections' = prune(active_connections, stale1)
                  /\ pc' = [pc EXCEPT ![h] = "receive"]
    /\ UNCHANGED <<responses, now, data, incoming, message, frame_no, targets, errcode, messages,
                   nframes, exit_by>>
    /\ UNCHANGED hsvars

\* ----------------------------------------------------------------- Next
\* The tokens of ClientTokens(t) that pass the gate at time t.
PassingTokens(t) ==
    {tok \in ClientTokens(t) :
        /\ tok.key = JWT_SECRET
        /\ tok.payload.exp > t
        /\ ParseInt(tok.payload.sub) \in Users}

\* The two users are interchangeable: the first socket is taken to be the
\* one of user 1.
SessionTokens(h, t) ==
    {tok \in PassingTokens(t) : h = Sockets[1] => ParseInt(tok.payload.sub) = 1}

\* The steps every session has.
Session ==
    \/ \E h \in Handles : ResolveUser(h)
    \/ \E h \in Handles : Accept(h)
    \/ \E h \in Handles : ReceiveRaises(h)
    \/ \E h \in Handles : SendError(h)

\* The steps of a frame after it was received.
Chat ==
    \/ \E h \in Handles : ResolveRecipient(h)
    \/ \E h \in Handles : Commit(h)
    \/ \E h \in Handles : CommitRaises(h)
    \/ \E h \in Handles : StoreRaises(h)
    \/ \E h \in Handles : Refresh(h)
    \/ \E h \in Handles, ws \in Handles : FanoutSend(h, ws)

\* The chat sessions.  A handshake that is refused touches nothing the other
\* tasks see, so here the clients present passing handshakes; HandshakeSpec
\* has the others.
Next ==
    \/ \E h \in Handles : \E tok \in SessionTokens(h, now) : Handshake(h, FRONTEND_ORIGIN, tok)
    \/ Session
    \/ \E h \in Handles, payload \in Payloads \cup {BadJson} :
            nframes < MaxFrames /\ Receive(h, payload)
    \/ Chat

Spec == Init /\ [][Next]_vars

\* The handshakes of all clients, with time passing.
HandshakeNext ==
    \/ \E h \in Handles, o \in Origins, tok \in ClientTokens(now) : Handshake(h, o, tok)
    \/ \E h \in Handles : ResolveUserRaises(h)
    \/ Tick
    \/ Session

HandshakeSpec == Init /\ [][HandshakeNext]_vars

\* The two gates: HTTP requests, and the handshake of the first socket.
GateNext ==
    \/ \E creds \in Credentials(now) : Request(creds)
    \/ \E o \in Origins, tok \in ClientTokens(now) : Handshake(Sockets[1], o, tok)
    \/ Tick

GateSpec == Init /\ [][GateNext]_vars

\* Two connections, opened before the clock moves, over a longer run: more
\* frames, and time passing during the sessions.
PairNext ==
    \/ \E h \in {Sockets[1], Sockets[2]} : \E tok \in SessionTokens(h, now) :
            now = 0 /\ Handshake(h, FRONTEND_ORIGIN, tok)
    \/ Session
    \/ \E h \in Handles, payload \in Payloads \cup {BadJson} :
            nframes < MaxPairFrames /\ Receive(h, payload)
    \/ Chat
    \/ Tick

PairSpec == Init /\ [][PairNext]_vars

\* ------------------------------------------------------------ properties
\* The positions of the receive loop.
LoopPcs == {"receive", "err", "resolve", "commit", "refresh", "fanout"}

\* The handles the registry holds for identity u.
RegisteredFor(u) ==
    {w \in Handles : \E i \in 1..Len(active_connections) :
        /\ active_connections[i].user_id = u
        /\ w \in active_connections[i].connections}

\* The send_json calls on w that carried Message m.
Deliveries(w, m) == {k \in 1..Len(wire[w]) : wire[w][k].msg = m}

\* The rows built from the frame that h is processing.
RowsOfFrame(h) == {n \in 1..Len(messages) : messages[n].frame = frame_no[h]}

\* h has committed the Message of its frame and not yet taken the next frame.
Committed(h) ==
    pc[h] \in {"refresh", "fanout"} \/ (pc[h] = "receive" /\ message[h] # NoMessage)

\* h has finished the pass over the handles it looked up.
PassDone(h) == pc[h] = "receive" /\ message[h] # NoMessage /\ targets[h] # {}

\* The handles of the pass of h on which send_json raised.
FailedIn(h) ==
    {w \in targets[h] : \E k \in Deliveries(w, message[h]) : ~wire[w][k].ok}

\* The accept of the handshake of h returned.
Accepted(h) == "accept" \in Range(hs_trace[h])

C1_State ==
    /\ \A m, n \in 1..Len(messages) : messages[m].frame = messages[n].frame => m = n
    /\ \A h \in Handles :
        /\ pc[h] = "commit" => RowsOfFrame(h) = {}
        /\ Committed(h) =>
            /\ RowsOfFrame(h) = {message[h]}
            /\ messages[message[h]].sender_id = me[h]
            /\ messages[message[h]].recipient_id = incoming[h].recipient_id
            /\ messages[message[h]].contents = incoming[h].contents
            /\ pc[h] = "refresh" => \A w \in Handles : Deliveries(w, message[h]) = {}
            /\ pc[h] = "receive" => todo[h] = {}
            /\ pc[h] # "refresh" => \A w \in Handles :
                /\ Cardinality(Deliveries(w, message[h]))
                     = IF w \in targets[h] \ todo[h] THEN 1 ELSE 0
                /\ \A k \in Deliveries(w, message[h]) :
                    /\ wire[w][k].frame.type = ""
                    /\ wire[w][k].frame.sender_id = me[h]
                    /\ wire[w][k].frame.contents = incoming[h].contents
                    /\ wire[w][k].frame.created_at
                         = <<"iso8601", messages[message[h]].created_at>>

C1_Lookup ==
    \A h \in Handles :
        (pc[h] = "refresh" /\ pc'[h] \in {"fanout", "receive"})
            => targets'[h] = RegisteredFor(incoming[h].recipient_id)

\* C1: a well-formed frame whose recipient exists and whose commit succeeds
\* leaves exactly one Message row, built from that frame; the handles the pass
\* sends to are those registered for the recipient when the lookup runs, and
\* send_json is called exactly once on each of them, with the delivery frame
\* {sender_id, contents, created_at} of the row, and on no other handle.
C1_ExactlyOnce == []C1_State /\ [][C1_Lookup]_vars

C1_Witness ==
    \E h \in Handles :
        /\ PassDone(h)
        /\ h \notin targets[h]
        /\ Cardinality(targets[h]) = 2
        /\ \A w \in targets[h] :
            \E k \in Deliveries(w, message[h]) : wire[w][k].ok

\* C2: in every state every key of active_connections maps to a non-empty
\* set; a disconnect that empties a set removes the entry in the same step.
C2_NoEmptyEntry ==
    \A i \in 1..Len(active_connections) : active_connections[i].connections # {}

C2_Witness ==
    \E h, g \in Handles :
        /\ exit_by[h] = "disconnect"
        /\ ~HasKey(active_connections, me[h])
        /\ active_connections # <<>>
        /\ PassDone(g)
        /\ stale[g] # <<>>

\* C3: a session that was accepted and has ended was ended through the
\* `except WebSocketDisconnect` branch, which calls disconnect, and its
\* handle is not in the registry.
C3_ClosedIsDisconnected ==
    \A h \in Handles :
        (pc[h] = "closed" /\ Accepted(h))
            => (exit_by[h] = "disconnect" /\ ~Registered(h))

C4_State ==
    \A h \in Handles :
        (PassDone(h) /\ FailedIn(h) \ {h} # {})
            => \A w \in targets[h] : Deliveries(w, message[h]) # {}

C4_Step ==
    \A h, w \in Handles :
        (/\ pc[h] = "fanout"
         /\ w # h
         /\ h \notin Range(stale[h])
         /\ Len(wire'[w]) = Len(wire[w]) + 1
         /\ wire'[w][Len(wire'[w])].msg = message[h]
         /\ ~wire'[w][Len(wire'[w])].ok)
            => /\ pc'[h] \in {"fanout", "receive"}
               /\ exit_by'[h] = exit_by[h]
               /\ alive'[h] = alive[h]
               /\ Registered(h) => Registered(h)'

\* C4: a send that fails on a recipient handle other than the sender's own
\* stops nothing: send_json is still called on every other handle of the
\* pass, and the step leaves the sender in the receive loop, its socket open
\* and its handle registered.
C4_FailureIsLocal == []C4_State /\ [][C4_Step]_vars

C4_Witness ==
    \E h \in Handles :
        /\ PassDone(h)
        /\ h \notin targets[h]
        /\ Registered(h)
        /\ alive[h]
        /\ \E w, v \in targets[h] :
            /\ w \in FailedIn(h)
            /\ v \notin FailedIn(h)
            /\ Deliveries(v, message[h]) # {}

C5_State ==
    \A h \in Handles :
        /\ (pc[h] = "fanout" \/ PassDone(h)) => Range(stale[h]) = FailedIn(h)
        /\ PassDone(h) => \A w \in Range(stale[h]) : ~Registered(w)

C5_Step ==
    \A h \in Handles :
        (pc[h] = "fanout" /\ todo'[h] # todo[h])
            => IF pc'[h] = "fanout"
               THEN active_connections' = active_connections
               ELSE \A w \in Handles :
                        Registered(w)' <=> (Registered(w) /\ w \notin Range(stale'[h]))

\* C5: the handles on which send_json raised are exactly the ones collected
\* in stale; a send that is not the last of the pass leaves the registry as it
\* is; the step that ends the pass removes the collected handles and no
\* other, so that afterwards none of them is registered.
C5_PruneAfterPass == []C5_State /\ [][C5_Step]_vars

C5_Witness ==
    \E h \in Handles :
        /\ PassDone(h)
        /\ Len(stale[h]) = 1
        /\ \E w \in targets[h] \ Range(stale[h]) : Registered(w)

C6_State ==
    \A h \in Handles :
        /\ Registered(h) => Accepted(h)
        /\ (Accepted(h) \/ pc[h] \in LoopPcs) =>
            /\ hs_trace[h] = <<"origin", "jwt_decode", "db_get", "accept">>
            /\ origin[h] = FRONTEND_ORIGIN
            /\ token[h].key = JWT_SECRET
            /\ me[h] \in Users
            /\ Str(me[h]) = token[h].payload.sub
        /\ exit_by[h] = "refused" =>
            /\ close_code[h] = WS_1008_POLICY_VIOLATION
            /\ ~Accepted(h)
            /\ ~Registered(h)

C6_Step ==
    \A h \in Handles :
        /\ (pc[h] = "new" /\ pc'[h] # "new") =>
            IF /\ origin'[h] = FRONTEND_ORIGIN
               /\ token'[h].key = JWT_SECRET
               /\ token'[h].payload.exp > now
            THEN pc'[h] = "auth"
            ELSE /\ exit_by'[h] = "refused"
                 /\ close_code'[h] = WS_1008_POLICY_VIOLATION
        /\ (pc[h] = "auth" /\ pc'[h] = "accepting") =>
            \E u \in Users : Str(u) = token[h].payload.sub
        /\ (pc[h] = "auth" /\ pc'[h] # "auth" /\ exit_by'[h] # "handshake_error"
                /\ \A u \in Users : Str(u) # token[h].payload.sub) =>
            /\ exit_by'[h] = "refused"
            /\ close_code'[h] = WS_1008_POLICY_VIOLATION

\* C6: a handle is accepted and registered only if its Origin is the allowed
\* one, its token was signed with the secret and unexpired when checked, and
\* the subject is a stored user; a handshake that fails one of these is
\* refused with close code 1008, never accepted and never registered.
C6_AuthBeforeRegister == []C6_State /\ [][C6_Step]_vars

C6_Witness ==
    \E h, g, k \in Handles :
        /\ Registered(h) /\ pc[h] = "receive"
        /\ exit_by[g] = "refused"
        /\ origin[g] = FRONTEND_ORIGIN /\ token[g].key # JWT_SECRET
        /\ exit_by[k] = "refused"
        /\ "db_get" \in Range(hs_trace[k])

\* A payload that is not {recipient_id: integer, contents: string} in JSON.
Malformed(d) ==
    \/ d = BadJson
    \/ d.recipient_id.type # "number"
    \/ ~IsDecimal(d.recipient_id.text)
    \/ d.contents.type # "string"

\* C7: while a session holds a malformed payload it is about to answer with
\* bad_json or validation_error, and no Message row was built from the frame.
C7_MalformedIsRejected ==
    \A h \in Handles :
        (data[h] # NoData /\ Malformed(data[h]))
            => /\ pc[h] = "err"
               /\ errcode[h] \in {"bad_json", "validation_error"}
               /\ RowsOfFrame(h) = {}

C8_Step ==
    \A h \in Handles :
        (pc[h] \in LoopPcs /\ pc'[h] = "closed") => pc[h] = "err"

\* C8: a session leaves the receive loop only in the step in which a send on
\* its own socket fails; no store failure and no other error ends it.
C8_OnlyOwnSocketCloses == [][C8_Step]_vars

\* C9: each handle is in the set of at most one identity, each identity has
\* at most one entry, and a handle that disconnect was called for is in no set.
C9_AtMostOneSet ==
    /\ \A w \in Handles :
        Cardinality({i \in 1..Len(active_connections) :
                        w \in active_connections[i].connections}) <= 1
    /\ \A i, j \in 1..Len(active_connections) :
        active_connections[i].user_id = active_connections[j].user_id => i = j
    /\ \A h \in Handles : exit_by[h] = "disconnect" => ~Registered(h)

C9_Witness ==
    /\ Len(active_connections) = 2
    /\ \E h \in Handles : exit_by[h] = "disconnect" /\ HasKey(active_connections, me[h])

HandshakeOrder == <<"origin", "jwt_decode", "db_get", "accept">>

IsPrefix(s, t) == Len(s) <= Len(t) /\ SubSeq(t, 1, Len(s)) = s

\* C10: the handshake steps run in the order origin, jwt.decode, db.get,
\* accept; a handshake with another Origin is refused with 1008 after the
\* origin check alone, whatever its token; a handshake that is refused has a
\* wrong Origin, a token that does not verify or an unknown subject, and a
\* session in the receive loop is registered.
C10_OriginFirst ==
    \A h \in Handles :
        /\ IsPrefix(hs_trace[h], HandshakeOrder)
        /\ (pc[h] # "new" /\ origin[h] # FRONTEND_ORIGIN) =>
            /\ hs_trace[h] = <<"origin">>
            /\ exit_by[h] = "refused"
            /\ close_code[h] = WS_1008_POLICY_VIOLATION
            /\ user_id[h] = NoUser
            /\ me[h] = NoUser
            /\ ~Registered(h)
        /\ exit_by[h] = "refused" =>
            \/ origin[h] # FRONTEND_ORIGIN
            \/ token[h].key # JWT_SECRET
            \/ token[h].payload.exp <= now
            \/ \A u \in Users : Str(u) # token[h].payload.sub
        /\ pc[h] \in {"receive", "err"} => Registered(h)

C10_Witness ==
    \E h, g \in Handles :
        /\ origin[h] # FRONTEND_ORIGIN
        /\ exit_by[h] = "refused"
        /\ token[h].key = JWT_SECRET
        /\ token[h].payload.exp > now
        /\ token[h].payload.sub = "1"
        /\ origin[g] = FRONTEND_ORIGIN
        /\ pc[g] = "receive"
        /\ Registered(g)

\* The requests the request-scoped gate turned away.
Failures == {r \in responses : r.outcome.user = NoUser}

\* C11: any two requests the request-scoped gate turns away get the same
\* response: the same status code and the same detail.
C11_OneOutcome ==
    \A r1, r2 \in Failures : r1.outcome = r2.outcome

\* The token was signed with the secret and t is before iat + 900.
InForce(tok, t) == tok.key = JWT_SECRET /\ t < tok.payload.iat + 900

C12_State ==
    \A r \in responses :
        /\ r.outcome.user # NoUser => InForce(r.creds.credentials, r.at)
        /\ (r.creds # NoCreds /\ ~InForce(r.creds.credentials, r.at)) =>
            /\ r.outcome.user = NoUser
            /\ r.outcome.status_code = 401
        /\ (/\ r.creds # NoCreds
            /\ r.creds.scheme = "Bearer"
            /\ InForce(r.creds.credentials, r.at)
            /\ \E u \in Users : Str(u) = r.creds.credentials.payload.sub) =>
            Str(r.outcome.user) = r.creds.credentials.payload.sub

C12_Step ==
    \A h \in Handles :
        (pc[h] = "new" /\ pc'[h] # "new") =>
            /\ pc'[h] = "auth" => InForce(token'[h], now)
            /\ ~InForce(token'[h], now) =>
                /\ exit_by'[h] = "refused"
                /\ close_code'[h] = 1008
            /\ (InForce(token'[h], now) /\ origin'[h] = FRONTEND_ORIGIN) =>
                pc'[h] = "auth"

\* C12: in the request-scoped gate and in the handshake, a token verifies
\* exactly when it was signed with the secret and the time of the check is
\* before iat + 900; a token checked at or after that instant, or signed
\* with another key, is turned away (401, or a refused handshake).
C12_Expiry == []C12_State /\ [][C12_Step]_vars

C12_Witness ==
    /\ \E r1, r2 \in responses :
        /\ r1.creds = r2.creds
        /\ r1.at = 0 /\ r1.outcome.user # NoUser
        /\ r2.at = 900 /\ r2.outcome.user = NoUser
    /\ exit_by[Sockets[1]] = "refused"
    /\ origin[Sockets[1]] = FRONTEND_ORIGIN
    /\ token[Sockets[1]].key = JWT_SECRET
    /\ token[Sockets[1]].payload.exp = now

C13_Step ==
    LET gone == {w \in Handles : Registered(w) /\ ~(Registered(w)')}
        kept == {i \in 1..Len(active_connections) :
                    active_connections[i].connections \ gone # {}}
    IN gone # {} =>
        /\ \A u \in UserIds :
            /\ RegisteredFor(u)' = RegisteredFor(u) \ gone
            /\ HasKey(active_connections', u) <=> RegisteredFor(u) \ gone # {}
        /\ Len(active_connections') = Cardinality(kept)
        /\ \A i, j \in kept : i < j =>
            \E a, b \in 1..Len(active_connections') :
                /\ a < b
                /\ active_connections'[a].user_id = active_connections[i].user_id
                /\ active_connections'[b].user_id = active_connections[j].user_id
        /\ \A i \in kept : active_connections[i].connections \cap gone = {} =>
            \E a \in 1..Len(active_connections') :
                active_connections'[a] = active_connections[i]
        /\ \A h \in Handles :
            (pc[h] = "err" /\ exit_by'[h] = "disconnect") => gone \subseteq {h}

\* C13: a step that takes handles out of the registry leaves every identity
\* with exactly its other handles: its entry stays if one is left, the
\* entries of the identities that lost no handle are the same, in the same
\* order, and a session that ends through disconnect takes out its own handle
\* and no other.
C13_DisconnectOne == [][C13_Step]_vars

C13_Witness ==
    \E h, v, g \in Handles :
        /\ PassDone(h)
        /\ v \in Range(stale[h])
        /\ g \in targets[h] \ Range(stale[h])
        /\ Registered(g)
        /\ ~Registered(v)
        /\ exit_by[v] # "disconnect"
        /\ Len(active_connections) = 2

\* How often the handshake and the session of h decoded its token.
Decodes(h) ==
    Cardinality({k \in 1..Len(hs_trace[h]) : hs_trace[h][k] = "jwt_decode"})

C14_State == \A h \in Handles : Decodes(h) <= 1

C14_Step ==
    /\ now' # now =>
        /\ pc' = pc
        /\ alive' = alive
        /\ exit_by' = exit_by
        /\ active_connections' = active_connections
    /\ \A h \in Handles :
        /\ (pc[h] \in LoopPcs /\ pc'[h] = "closed") =>
            pc[h] \in {"err", "resolve", "refresh"}
        /\ (Registered(h) /\ ~(Registered(h)')) =>
            \/ pc[h] = "err" /\ exit_by'[h] = "disconnect"
            \/ \E g \in Handles : pc[g] = "fanout" /\ h \in Range(stale'[g])

\* C14: the token of a session is decoded once, at the handshake.  The clock
\* passing the exp of a token changes no session and no registry entry; a
\* session ends only where a send on its own socket or a store call fails,
\* and a handle leaves the registry only through the disconnect of its own
\* session or the prune of a pass, whatever the age of the token.
C14_NoRevalidation == []C14_State /\ [][C14_Step]_vars

C14_Witness ==
    \E h, w \in Handles :
        /\ PassDone(h)
        /\ Registered(h)
        /\ token[h].payload.exp <= messages[message[h]].created_at
        /\ w \in targets[h]
        /\ w # h
        /\ token[w].payload.exp <= now
        /\ Registered(w)
        /\ \E k \in Deliveries(w, message[h]) : wire[w][k].ok

\* The rows of the frames that came in on connection h.
RowsOfConn(h) == {n \in 1..Len(messages) : messages[n].conn = h}

C18_State ==
    /\ \A h \in Handles : \A m, n \in RowsOfConn(h) :
        m < n => messages[m].frame < messages[n].frame
    /\ \A h, w \in Handles : \A k, l \in 1..Len(wire[w]) :
        (/\ k < l
         /\ wire[w][k].msg \in RowsOfConn(h)
         /\ wire[w][l].msg \in RowsOfConn(h))
            => messages[wire[w][k].msg].frame < messages[wire[w][l].msg].frame
    /\ \A h \in Handles : \A n \in RowsOfConn(h) :
        (frame_no[h] # 0 /\ n # message[h]) => messages[n].frame < frame_no[h]

C18_Step ==
    \A h \in Handles :
        (frame_no'[h] # frame_no[h] /\ frame_no'[h] # 0) =>
            /\ pc[h] = "receive"
            /\ todo[h] = {}
            /\ frame_no[h] < frame_no'[h]
            /\ \A w \in Range(stale[h]) : ~Registered(w)
            /\ message[h] # NoMessage =>
                \A w \in targets[h] : Deliveries(w, message[h]) # {}

\* C18: a connection takes its next frame only when the frame before is done
\* with: its pass has sent to every handle it looked up and has pruned the
\* stale ones.  The rows persisted for one connection, and the delivery
\* frames each socket was sent for one connection, are in the order in which
\* the frames of that connection arrived.
C18_InOrder == []C18_State /\ [][C18_Step]_vars

C18_Witness ==
    \E h, w \in Handles :
        /\ Cardinality(RowsOfConn(h)) = 2
        /\ w # h
        /\ Cardinality({k \in 1..Len(wire[w]) : wire[w][k].msg \in RowsOfConn(h)}) = 2

C15_State ==
    \A h \in Handles :
        /\ pc[h] = "fanout" =>
            \A w \in Handles :
                Deliveries(w, message[h]) # {} <=> w \in targets[h] \ todo[h]
        /\ PassDone(h) =>
            \A w \in Handles : Deliveries(w, message[h]) # {} <=> w \in targets[h]

C15_Step ==
    \A h \in Handles :
        pc[h] = "fanout" =>
            /\ pc'[h] \in {"fanout", "receive"}
            /\ targets'[h] = targets[h]
            /\ todo'[h] \subseteq todo[h]
            /\ todo'[h] = todo[h] \/ Cardinality(todo[h] \ todo'[h]) = 1

\* C15: the handles of a pass are fixed when the lookup runs.  While the
\* pass is suspended in a send, whatever other tasks connect or disconnect,
\* the pass keeps its handles, goes on one handle at a time and does not
\* fail; when it is done it has called send_json on each of these handles,
\* registered or not by then, and on no handle registered later.
C15_Snapshot == []C15_State /\ [][C15_Step]_vars

C15_Witness ==
    \E h, v, w \in Handles :
        /\ pc[h] = "fanout"
        /\ v \in todo[h]
        /\ ~Registered(v)
        /\ w \notin targets[h]
        /\ w \in RegisteredFor(incoming[h].recipient_id)

\* The send_json calls, on any socket, that carried a row of frame n.
DeliveriesOfFrame(n) ==
    UNION {{<<w, k>> : k \in {j \in 1..Len(wire[w]) :
                                /\ wire[w][j].msg # NoMessage
                                /\ messages[wire[w][j].msg].frame = n}} :
           w \in Handles}

C16_State ==
    \A h \in Handles :
        (pc[h] = "err" /\ errcode[h] = "db_error") =>
            /\ RowsOfFrame(h) = {}
            /\ DeliveriesOfFrame(frame_no[h]) = {}
            /\ message[h] = NoMessage

C16_Step ==
    \A h \in Handles :
        /\ (pc[h] = "commit" /\ pc'[h] # "commit" /\ Len(messages') = Len(messages)) =>
            /\ pc'[h] = "err"
            /\ errcode'[h] = "db_error"
            /\ messages' = messages
            /\ wire' = wire
            /\ active_connections' = active_connections
        /\ (pc[h] = "err" /\ errcode[h] = "db_error" /\ pc'[h] # "err") =>
            /\ messages' = messages
            /\ \A w \in Handles \ {h} : wire'[w] = wire[w]
            /\ \/ /\ pc'[h] = "receive"
                  /\ active_connections' = active_connections
                  /\ wire'[h] = Append(wire[h],
                        [frame |-> [type |-> "error", code |-> "db_error",
                                    sender_id |-> 0, contents |-> "",
                                    created_at |-> <<"iso8601", 0>>],
                         ok |-> TRUE, msg |-> 0])
               \/ /\ pc'[h] = "closed"
                  /\ ~alive'[h]
                  /\ wire'[h] = wire[h]

\* C16: a commit that fails leaves the messages table as it was and sends
\* nothing to any recipient; the session sends the error frame db_error on
\* its own socket and waits for the next frame, and ends only if that send
\* fails; no row and no delivery frame ever exists for the frame.
C16_DbError == []C16_State /\ [][C16_Step]_vars

C16_Witness ==
    \E h \in Handles :
        /\ pc[h] = "receive"
        /\ Registered(h)
        /\ nframes = 1
        /\ messages = <<>>
        /\ Len(wire[h]) = 1
        /\ wire[h][1].frame.code = "db_error"
        /\ \A w \in Handles \ {h} : wire[w] = <<>>
        /\ RegisteredFor(2) # {}

C17_State ==
    /\ \A n \in 1..Len(messages) : messages[n].recipient_id \in Users
    /\ \A h \in Handles :
        /\ (pc[h] = "err" /\ errcode[h] = "recipient_not_found") =>
            /\ incoming[h].recipient_id \notin Users
            /\ RowsOfFrame(h) = {}
            /\ DeliveriesOfFrame(frame_no[h]) = {}
        /\ pc[h] \in {"commit", "refresh", "fanout"} =>
            incoming[h].recipient_id \in Users

C17_Step ==
    \A h \in Handles :
        /\ (pc[h] = "resolve" /\ incoming[h].recipient_id \notin Users
                /\ pc'[h] # "resolve") =>
            /\ pc'[h] \in {"err", "closed"}
            /\ pc'[h] = "err" => errcode'[h] = "recipient_not_found"
            /\ messages' = messages
            /\ wire' = wire
            /\ active_connections' = active_connections
        /\ (pc[h] = "err" /\ errcode[h] = "recipient_not_found" /\ pc'[h] # "err") =>
            /\ messages' = messages
            /\ \A w \in Handles \ {h} : wire'[w] = wire[w]
            /\ \/ /\ pc'[h] = "receive"
                  /\ active_connections' = active_connections
                  /\ wire'[h] = Append(wire[h],
                        [frame |-> [type |-> "error", code |-> "recipient_not_found",
                                    sender_id |-> 0, contents |-> "",
                                    created_at |-> <<"iso8601", 0>>],
                         ok |-> TRUE, msg |-> 0])
               \/ /\ pc'[h] = "closed"
                  /\ ~alive'[h]
                  /\ wire'[h] = wire[h]

\* C17: a frame whose recipient_id is not the id of a stored user leaves the
\* messages table, the sockets of the others and the registry as they were;
\* the session sends the error frame recipient_not_found on its own socket
\* and waits for the next frame, and ends only if that send or the store
\* lookup fails; no row is ever addressed to an id that is no user.
C17_RecipientNotFound == []C17_State /\ [][C17_Step]_vars

C17_Witness ==
    \E h \in Handles :
        /\ pc[h] = "receive"
        /\ Registered(h)
        /\ nframes = 1
        /\ messages = <<>>
        /\ Len(wire[h]) = 1
        /\ wire[h][1].frame.code = "recipient_not_found"
        /\ \A w \in Handles \ {h} : wire[w] = <<>>

\* C19: a handle is registered under the identity its own handshake
\* authenticated, the handles of a pass are handles of the recipient of its
\* message, and every delivery frame a socket was sent carries a message
\* addressed to the identity of that socket.
C19_RecipientOnly ==
    /\ \A i \in 1..Len(active_connections) :
        \A w \in active_connections[i].connections :
            /\ me[w] = active_connections[i].user_id
            /\ Str(me[w]) = token[w].payload.sub
    /\ \A h \in Handles :
        (pc[h] = "fanout" \/ PassDone(h)) =>
            \A w \in targets[h] : me[w] = incoming[h].recipient_id
    /\ \A w \in Handles : \A k \in 1..Len(wire[w]) :
        wire[w][k].msg # NoMessage =>
            me[w] = messages[wire[w][k].msg].recipient_id

C19_Witness ==
    \E h, w, x \in Handles :
        /\ PassDone(h)
        /\ w \in targets[h]
        /\ \E k \in Deliveries(w, message[h]) : wire[w][k].ok
        /\ x # h
        /\ Registered(x)
        /\ me[x] # incoming[h].recipient_id
        /\ wire[x] = <<>>

\* C20: the sender_id of every row is the identity the handshake of the
\* connection the frame came in on authenticated, the subject of its token;
\* every delivery frame carries a row that is in the messages table, and
\* the sender_id of that row.
C20_SenderIsSelf ==
    /\ \A n \in 1..Len(messages) :
        /\ messages[n].sender_id = me[messages[n].conn]
        /\ Str(messages[n].sender_id) = token[messages[n].conn].payload.sub
    /\ \A w \in Handles : \A k \in 1..Len(wire[w]) :
        wire[w][k].msg # NoMessage =>
            /\ wire[w][k].msg \in 1..Len(messages)
            /\ wire[w][k].frame.sender_id = messages[wire[w][k].msg].sender_id
            /\ wire[w][k].frame.sender_id = me[messages[wire[w][k].msg].conn]

C20_Witness ==
    \E w \in Handles : \E k \in 1..Len(wire[w]) :
        /\ wire[w][k].msg # NoMessage
        /\ wire[w][k].ok
        /\ messages[wire[w][k].msg].recipient_id # messages[wire[w][k].msg].sender_id
        /\ messages[wire[w][k].msg].conn # w

====
